---- MODULE Spec2Model ----
(***************************************************************************)
(* State-machine model of src/main.py (IrbisTextFileMaker): the ISBD       *)
(* citation parser `Parsing`, the record model `Field`, the address        *)
(* resolver `fld`, and the two handlers `do_parsing` and `multi_parsing`.  *)
(*                                                                         *)
(* Text is a sequence of characters.  A character is a one-element token:  *)
(* ASCII characters stand for themselves, the others are named:            *)
(*   "cyr_x" / "CYR_X"  lower / upper Cyrillic letter (transliterated),    *)
(*   "ENDASH" U+2013, "EMDASH" U+2014, "HBAR" U+2015, "FIGDASH" U+2012,    *)
(*   "MINUS" U+2212, "NUMERO" U+2116, "NL" line feed, "CR", "TAB".         *)
(* Python index i of a string or list is index i+1 here.                   *)
(***************************************************************************)
EXTENDS Integers, Sequences, FiniteSets, TLC

(* ------------------------------------------------------------------ *)
(* Characters                                                           *)
(* ------------------------------------------------------------------ *)

UpperLatin == <<"A","B","C","D","E","F","G","H","I","J","K","L","M",
                "N","O","P","Q","R","S","T","U","V","W","X","Y","Z">>

LowerLatin == <<"a","b","c","d","e","f","g","h","i","j","k","l","m",
                "n","o","p","q","r","s","t","u","v","w","x","y","z">>

UpperCyr == <<"CYR_A","CYR_B","CYR_V","CYR_G","CYR_D","CYR_E","CYR_YO",
              "CYR_ZH","CYR_Z","CYR_I","CYR_J","CYR_K","CYR_L","CYR_M",
              "CYR_N","CYR_O","CYR_P","CYR_R","CYR_S","CYR_T","CYR_U",
              "CYR_F","CYR_H","CYR_C","CYR_CH","CYR_SH","CYR_SCH",
              "CYR_HARD","CYR_Y","CYR_SOFT","CYR_EH","CYR_YU","CYR_YA">>

LowerCyr == <<"cyr_a","cyr_b","cyr_v","cyr_g","cyr_d","cyr_e","cyr_yo",
              "cyr_zh","cyr_z","cyr_i","cyr_j","cyr_k","cyr_l","cyr_m",
              "cyr_n","cyr_o","cyr_p","cyr_r","cyr_s","cyr_t","cyr_u",
              "cyr_f","cyr_h","cyr_c","cyr_ch","cyr_sh","cyr_sch",
              "cyr_hard","cyr_y","cyr_soft","cyr_eh","cyr_yu","cyr_ya">>

Digits == <<"0","1","2","3","4","5","6","7","8","9">>

Range(s) == {s[i] : i \in 1..Len(s)}

IndexOf(seq, c) == CHOOSE i \in 1..Len(seq) : seq[i] = c

\* str.isupper() / str.islower() of a single character
IsUpper(c) == c \in Range(UpperLatin) \cup Range(UpperCyr)

IsLower(c) == c \in Range(LowerLatin) \cup Range(LowerCyr)

IsDigit(c) == c \in Range(Digits)

\* regex \w on str patterns: letters, digits, underscore
IsWord(c) == IsUpper(c) \/ IsLower(c) \/ IsDigit(c) \/ c = "_"

\* regex . (no DOTALL): anything but a line feed
IsDot(c) == c # "NL"

\* the character range [U+0400-U+04FF] of re.search in make_author
IsCyrillic(c) == c \in Range(UpperCyr) \cup Range(LowerCyr)

\* str.lower() of a single character
Lower(c) ==
  IF c \in Range(UpperLatin) THEN LowerLatin[IndexOf(UpperLatin, c)]
  ELSE IF c \in Range(UpperCyr) THEN LowerCyr[IndexOf(UpperCyr, c)]
  ELSE c

\* str.upper() of a single character
Upper(c) ==
  IF c \in Range(LowerLatin) THEN UpperLatin[IndexOf(LowerLatin, c)]
  ELSE IF c \in Range(LowerCyr) THEN UpperCyr[IndexOf(LowerCyr, c)]
  ELSE c

(* ------------------------------------------------------------------ *)
(* String primitives of Python, on character sequences                  *)
(* ------------------------------------------------------------------ *)

\* s[i:] with Python index i
From(s, i) == SubSeq(s, i + 1, Len(s))

\* s[:i] with Python index i >= 0
Upto(s, i) == SubSeq(s, 1, IF i < Len(s) THEN i ELSE Len(s))

\* s[:-k]
DropLast(s, k) == SubSeq(s, 1, Len(s) - k)

\* s.startswith(p) at TLA position pos (1-based)
MatchAt(s, pos, p) ==
  /\ pos + Len(p) - 1 <= Len(s)
  /\ \A i \in 1..Len(p) : s[pos + i - 1] = p[i]

StartsWith(s, p) == MatchAt(s, 1, p)

EndsWith(s, p) == Len(p) <= Len(s) /\ MatchAt(s, Len(s) - Len(p) + 1, p)

\* first TLA position >= pos where sub occurs, 0 when none (str.find)
FindFrom(s, sub, pos) ==
  LET hits == {i \in pos..(Len(s) - Len(sub) + 1) : MatchAt(s, i, sub)}
  IN IF hits = {} THEN 0 ELSE CHOOSE i \in hits : \A j \in hits : i <= j

\* sub in s
Contains(s, sub) == FindFrom(s, sub, 1) # 0

RECURSIVE Split(_, _)
\* s.split(sep): always at least one part
Split(s, sep) ==
  LET i == FindFrom(s, sep, 1)
  IN IF i = 0 THEN <<s>>
     ELSE <<SubSeq(s, 1, i - 1)>> \o Split(SubSeq(s, i + Len(sep), Len(s)), sep)

\* s.partition(sep): <<before, sep or empty, after>>
Partition(s, sep) ==
  LET i == FindFrom(s, sep, 1)
  IN IF i = 0 THEN <<s, <<>>, <<>>>>
     ELSE <<SubSeq(s, 1, i - 1), sep, SubSeq(s, i + Len(sep), Len(s))>>

RECURSIVE Replace(_, _, _)
\* s.replace(old, new), old non-empty: left to right, non-overlapping
Replace(s, old, new) ==
  LET i == FindFrom(s, old, 1)
  IN IF i = 0 THEN s
     ELSE SubSeq(s, 1, i - 1) \o new
            \o Replace(SubSeq(s, i + Len(old), Len(s)), old, new)

RECURSIVE LStrip(_, _)
LStrip(s, chars) ==
  IF s # <<>> /\ Head(s) \in chars THEN LStrip(Tail(s), chars) ELSE s

RECURSIVE RStrip(_, _)
RStrip(s, chars) ==
  IF s # <<>> /\ s[Len(s)] \in chars THEN RStrip(DropLast(s, 1), chars) ELSE s

\* s.strip(chars)
Strip(s, chars) == RStrip(LStrip(s, chars), chars)

\* whitespace of str.split() and str.strip() without argument
White == {" ", "TAB", "NL", "CR"}

RECURSIVE SplitWhite(_)
\* s.split(): runs of whitespace separate, no empty token
SplitWhite(s) ==
  LET t == LStrip(s, White)
      ends == {i \in 1..Len(t) : t[i] \in White}
      e == IF ends = {} THEN Len(t) + 1
           ELSE CHOOSE i \in ends : \A j \in ends : i <= j
  IN IF t = <<>> THEN <<>>
     ELSE <<SubSeq(t, 1, e - 1)>> \o SplitWhite(SubSeq(t, e, Len(t)))

RECURSIVE Join(_, _)
\* sep.join(parts)
Join(parts, sep) ==
  IF parts = <<>> THEN <<>>
  ELSE IF Len(parts) = 1 THEN parts[1]
  ELSE parts[1] \o sep \o Join(Tail(parts), sep)

RECURSIVE StrOf(_)
\* str(n) for n >= 0
StrOf(n) ==
  IF n < 10 THEN <<Digits[n + 1]>>
  ELSE StrOf(n \div 10) \o <<Digits[(n % 10) + 1]>>

RECURSIVE IntOf(_)
\* int(s) for a string of digits
IntOf(s) ==
  IF Len(s) = 1 THEN IndexOf(Digits, s[1]) - 1
  ELSE 10 * IntOf(DropLast(s, 1)) + (IndexOf(Digits, s[Len(s)]) - 1)

(* ------------------------------------------------------------------ *)
(* Normalizer: Parsing.__init__, lines 115-120                          *)
(* ------------------------------------------------------------------ *)

DashChars == {"ENDASH", "EMDASH", "HBAR", "FIGDASH", "MINUS"}

\* bibref.translate(dashes)
dashes(s) == [i \in 1..Len(s) |-> IF s[i] \in DashChars THEN "-" ELSE s[i]]

\* bibref.translate(noyo)
noyo(s) ==
  [i \in 1..Len(s) |-> IF s[i] = "CYR_YO" THEN "CYR_E"
                       ELSE IF s[i] = "cyr_yo" THEN "cyr_e" ELSE s[i]]

RECURSIVE CollapseSpaces(_)
\* while '  ' in bibref: bibref = bibref.replace('  ', ' ')
CollapseSpaces(s) ==
  IF Contains(s, <<" ", " ">>)
  THEN CollapseSpaces(Replace(s, <<" ", " ">>, <<" ">>))
  ELSE s

Normalize(text) ==
  LET b1 == Strip(text, {" ", "CR", "NL", "TAB"})
      b2 == CollapseSpaces(b1)
      b3 == dashes(b2)
      b4 == Replace(b3, <<".", "-", " ">>, <<".", " ", "-", " ">>)
  IN noyo(b4)

\* the delimiter r' // '
SourceSep == <<" ", "/", "/", " ">>

\* the area delimiter '. - '
AreaSep == <<".", " ", "-", " ">>

(* ------------------------------------------------------------------ *)
(* Field addresses and primitive operations of one parse                *)
(* ------------------------------------------------------------------ *)

\* absent subfield value in an aggregate list (dict.get -> None)
None == <<"None">>

\* One primitive operation of Parsing.__init__: a fld(code).fill(value)
\* call, a make_author entry, the Latin-name notification, the duplicate
\* removal attempt, a raised exception, or the final freeze.  `rule` names
\* the statement group of the source the operation belongs to.
MkOp(op, rule, code, value, fno) ==
  [op |-> op, rule |-> rule, code |-> code, value |-> value, fno |-> fno]

FillOp(rule, code, value) == MkOp("fill", rule, code, value, 0)

\* f'{fno}^{s}'
Code(fno, s) == StrOf(fno) \o <<"^", s>>

\* f'{fno}^{s}#{i}'
CodeOcc(fno, s, i) == StrOf(fno) \o <<"^", s, "#">> \o StrOf(i)

(* ------------------------------------------------------------------ *)
(* Title Extractor: Parsing.make_title                                  *)
(* ------------------------------------------------------------------ *)

\* lookahead (?= [/:;]|$) at TLA position p
OzbozLook(s, p) ==
  \/ p = Len(s) + 1
  \/ p = Len(s) /\ s[p] = "NL"
  \/ p + 1 <= Len(s) /\ s[p] = " " /\ s[p + 1] \in {"/", ":", ";"}

\* lengths k >= 1 of a match of .+? at start q that reach the lookahead
OzbozLens(s, q) ==
  {k \in 1..(Len(s) - q + 1) :
     /\ \A i \in q..(q + k - 1) : IsDot(s[i])
     /\ OzbozLook(s, q + k)}

Min(S) == CHOOSE x \in S : \A y \in S : x <= y

RECURSIVE FindallOzbozFrom(_, _)
FindallOzbozFrom(s, pos) ==
  LET starts == {q \in pos..Len(s) : OzbozLens(s, q) # {}}
  IN IF starts = {} THEN <<>>
     ELSE LET q == Min(starts)
              k == Min(OzbozLens(s, q))
          IN <<SubSeq(s, q, q + k - 1)>> \o FindallOzbozFrom(s, q + k)

\* re.findall(regex_ozboz, area)
FindallOzboz(area) == FindallOzbozFrom(area, 1)

\* the character class [\w{1,2}] of regex_heading
InitialClass(c) == IsWord(c) \/ c \in {"{", ",", "}"}

\* one repetition of (?:[\w{1,2}]\. ) at TLA position r
InitialAt(s, r) ==
  r + 2 <= Len(s) /\ InitialClass(s[r]) /\ s[r + 1] = "." /\ s[r + 2] = " "

\* length of the longest run from TLA position p that avoids the positions
\* in stops (the positions whose character is outside the class matched)
RunLen(s, p, stops) ==
  LET later == {i \in stops : i >= p}
  IN IF p > Len(s) THEN 0
     ELSE IF later = {} THEN Len(s) - p + 1 ELSE Min(later) - p

NonWord(s) == {i \in 1..Len(s) : ~IsWord(s[i])}

NonDot(s) == {i \in 1..Len(s) : ~IsDot(s[i])}

NonDigit(s) == {i \in 1..Len(s) : ~IsDigit(s[i])}

IsDigitAt(s) == {i \in 1..Len(s) : IsDigit(s[i])}

\* regex_heading once its first group (\w+) has taken k characters
HeadingAfter(seg, k) ==
  LET p == IF k + 1 <= Len(seg) /\ seg[k + 1] = "," THEN k + 2 ELSE k + 1
      r == p + 1
      two == InitialAt(seg, r) /\ InitialAt(seg, r + 3)
               /\ RunLen(seg, r + 6, NonDot(seg)) >= 1
      one == InitialAt(seg, r) /\ RunLen(seg, r + 3, NonDot(seg)) >= 1
      t == IF two THEN r + 6 ELSE r + 3
      ok == k >= 1 /\ p <= Len(seg) /\ seg[p] = " " /\ (two \/ one)
  IN IF ok
     THEN [matched |-> TRUE, z1 |-> SubSeq(seg, 1, k),
           z2 |-> SubSeq(seg, r, t - 1),
           z3 |-> SubSeq(seg, t, t + RunLen(seg, t, NonDot(seg)) - 1)]
     ELSE [matched |-> FALSE, z1 |-> <<>>, z2 |-> <<>>, z3 |-> <<>>]

\* re.match(regex_heading, seg): [matched, z1, z2, z3]
MatchHeading(seg) == HeadingAfter(seg, RunLen(seg, 1, NonWord(seg)))

\* elem[3:].replace(elem[3], elem[3].lower())
LowerFirst(elem) ==
  LET rest == From(elem, 3)
      c == elem[4]
  IN [i \in 1..Len(rest) |-> IF rest[i] = c THEN Lower(c) ELSE rest[i]]

RECURSIVE TitleLoop(_, _)
\* the loop over ozboz[1:]: acc is [title_info, resp_stmt_1, resp_stmt_2,
\* raised]; elem[3] on an element of three characters raises IndexError
TitleLoop(elems, acc) ==
  IF elems = <<>> \/ acc.raised THEN acc
  ELSE LET elem == Head(elems)
       IN IF StartsWith(elem, <<" ", ":", " ">>)
          THEN IF Len(elem) < 4
               THEN [acc EXCEPT !.raised = TRUE]
               ELSE TitleLoop(Tail(elems),
                              [acc EXCEPT !.title_info = LowerFirst(elem)])
          ELSE IF StartsWith(elem, <<" ", "/", " ">>)
          THEN TitleLoop(Tail(elems), [acc EXCEPT !.resp_stmt_1 = From(elem, 3)])
          ELSE IF StartsWith(elem, <<" ", ";", " ">>)
          THEN TitleLoop(Tail(elems), [acc EXCEPT !.resp_stmt_2 = From(elem, 3)])
          ELSE TitleLoop(Tail(elems), acc)

\* the heading branch of make_title: z is the match on first = ozboz[0], acc
\* the outcome of the loop over ozboz[1:]
TitleParts(first, z, acc) ==
  [ops |-> IF z.matched
           THEN <<FillOp("heading", <<"7","0","0","^","a">>, z.z1),
                  FillOp("heading", <<"7","0","0","^","b">>, Strip(z.z2, White))>>
           ELSE <<>>,
   raised |-> acc.raised,
   title |-> IF z.matched THEN z.z3 ELSE first,
   title_info |-> acc.title_info,
   resp_stmt_1 |-> acc.resp_stmt_1,
   resp_stmt_2 |-> acc.resp_stmt_2]

\* make_title once ozboz is known: ozboz[0] on an empty list raises
TitleOf(ozboz) ==
  IF ozboz = <<>>
  THEN [ops |-> <<>>, raised |-> TRUE, title |-> <<>>, title_info |-> <<>>,
        resp_stmt_1 |-> <<>>, resp_stmt_2 |-> <<>>]
  ELSE TitleParts(ozboz[1], MatchHeading(ozboz[1]),
                  TitleLoop(Tail(ozboz),
                            [title_info |-> <<>>, resp_stmt_1 |-> <<>>,
                             resp_stmt_2 |-> <<>>, raised |-> FALSE]))

\* Parsing.make_title(area): the fills it performs (heading 700), whether it
\* raised IndexError, and the tuple it returns
make_title(area) == TitleOf(FindallOzboz(area))

(* ------------------------------------------------------------------ *)
(* Author Extractor: Parsing.make_author                                *)
(* ------------------------------------------------------------------ *)

\* the literal '[и др.]'
EtAl == <<"[", "cyr_i", " ", "cyr_d", "cyr_r", ".", "]">>

\* number of characters the slice resp_stmt[:-8] drops
EtAlCut == 8

\* if '[и др.]' in resp_stmt: resp_stmt = resp_stmt[:-8]
StripEtAl(resp_stmt) ==
  IF Contains(resp_stmt, EtAl) THEN DropLast(resp_stmt, EtAlCut) ELSE resp_stmt

\* people = resp_stmt.split(', ')
People(resp_stmt) == Split(StripEtAl(resp_stmt), <<",", " ">>)

KeepTokens(tokens, Keep) ==
  Join(SelectSeq(tokens, LAMBDA n : n \in Keep), <<" ">>)

\* famname, io, ed_func from nameparts = person.split()
NamePartsOf(nameparts) ==
  LET toks == Range(nameparts)
      famname == KeepTokens(nameparts,
                   {n \in toks : ~Contains(n, <<".">>) /\ IsUpper(n[1])})
      io == KeepTokens(nameparts,
                   {n \in toks : Contains(n, <<".">>) /\ IsUpper(n[1])})
      ed_func == KeepTokens(nameparts,
                   {n \in toks : ~Contains(famname, n) /\ IsLower(n[1])})
  IN [famname |-> famname, io |-> io, ed_func |-> ed_func]

\* famname, io, ed_func of one person
NameParts(person) == NamePartsOf(SplitWhite(person))

\* rusmarc.fcode.get(ed_func, 570): the role table is outside src/, every
\* role takes the default code
fcode_get(ed_func) == 570

\* re.search('[\u0400-\u04FF]', person) finds nothing
Latin(person) == ~ \E j \in 1..Len(person) : IsCyrillic(person[j])

\* the statements of the loop body for person number i (0-based), np being
\* the name parts of the person
PersonFills(fno, np, latin, i) ==
     (IF latin THEN <<MkOp("notify", "author", <<>>, <<>>, fno)>> ELSE <<>>)
     \o <<FillOp("author", CodeOcc(fno, "a", i + 1), np.famname),
          FillOp("author", CodeOcc(fno, "b", i + 1), np.io)>>
     \o (IF np.ed_func # <<>>
         THEN <<FillOp("author", CodeOcc(fno, "4", i + 1),
                       StrOf(fcode_get(np.ed_func)) \o np.ed_func)>>
         ELSE <<>>)
     \o <<MkOp("dedup", "author", <<>>, <<>>, fno)>>

PersonOps(fno, person, i) ==
  PersonFills(fno, NameParts(person), Latin(person), i)

RECURSIVE PeopleOps(_, _, _)
PeopleOps(fno, people, i) ==
  IF i >= Len(people) THEN <<>>
  ELSE PersonOps(fno, people[i + 1], i) \o PeopleOps(fno, people, i + 1)

\* Parsing.make_author(fno, resp_stmt): the call itself, then the loop
make_author(fno, resp_stmt) ==
  <<MkOp("make_author", "author", <<>>, resp_stmt, fno)>>
    \o PeopleOps(fno, People(resp_stmt), 0)

(* ------------------------------------------------------------------ *)
(* Area Field Extractors: the loop body of Parsing.__init__, 153-204    *)
(* ------------------------------------------------------------------ *)

\* ', ' followed by \d{4} at TLA position q
YearTailAt(area, q) ==
  /\ q + 5 <= Len(area)
  /\ area[q] = "," /\ area[q + 1] = " "
  /\ \A i \in (q + 2)..(q + 5) : IsDigit(area[i])

\* where group 2 of regex_publ starts when (?: ?: (.*?)) matches at p, else 0
PublColonAt(area, p) ==
  IF MatchAt(area, p, <<" ", ":", " ">>) THEN p + 3
  ELSE IF MatchAt(area, p, <<":", " ">>) THEN p + 2
  ELSE 0

\* lengths m of the lazy group 2 starting at g that reach ', dddd'
PublG2Lens(area, g) ==
  {m \in 0..(Len(area) - g + 1) :
     /\ \A i \in g..(g + m - 1) : IsDot(area[i])
     /\ YearTailAt(area, g + m)}

\* whether the rest of regex_publ matches after group 1 ended before p
PublRestAt(area, p) ==
  \/ PublColonAt(area, p) # 0 /\ PublG2Lens(area, PublColonAt(area, p)) # {}
  \/ YearTailAt(area, p)

\* lengths k of the lazy group 1 ([^:]*?) at start st that let the rest match
PublG1Lens(area, st) ==
  {k \in 0..(Len(area) - st + 1) :
     /\ \A i \in st..(st + k - 1) : area[i] # ":"
     /\ PublRestAt(area, st + k)}

\* the groups when group 1 spans st..p-1 and the optional group, if it takes
\* part (g # 0), starts at g
PublGroups(area, st, p, g) ==
  LET colon == g # 0 /\ PublG2Lens(area, g) # {}
      m == Min(PublG2Lens(area, g))
  IN [matched |-> TRUE,
      g1 |-> SubSeq(area, st, p - 1),
      g2 |-> IF colon THEN SubSeq(area, g, g + m - 1) ELSE None,
      g3 |-> IF colon THEN SubSeq(area, g + m + 2, g + m + 5)
             ELSE SubSeq(area, p + 2, p + 5)]

\* the groups when group 1 spans st..p-1
PublAfter(area, st, p) == PublGroups(area, st, p, PublColonAt(area, p))

\* the match that starts at st: group 1 is as short as possible
PublFrom(area, st) == PublAfter(area, st, st + Min(PublG1Lens(area, st)))

\* re.search(regex_publ, area): [matched, g1, g2, g3], g2 = None when the
\* optional group took no part
SearchPubl(area) ==
  LET starts == {st \in 1..(Len(area) + 1) : PublG1Lens(area, st) # {}}
  IN IF starts = {}
     THEN [matched |-> FALSE, g1 |-> <<>>, g2 |-> None, g3 |-> <<>>]
     ELSE PublFrom(area, Min(starts))

\* no_publ = ('б. м.', 'б. и.', 'б. г.')
no_publ == << <<"cyr_b", ".", " ", "cyr_m", ".">>,
              <<"cyr_b", ".", " ", "cyr_i", ".">>,
              <<"cyr_b", ".", " ", "cyr_g", ".">> >>

\* publ_info[j] if publ_info[j] else no_publ[j]
PublValue(g, j) == IF g = None \/ g = <<>> THEN no_publ[j] ELSE g

\* lines 154-161
PublFills(publ, fno, s) ==
  IF publ.matched
  THEN <<FillOp("publ", Code(fno, s[1]), PublValue(publ.g1, 1)),
         FillOp("publ", Code(fno, s[2]), PublValue(publ.g2, 2)),
         FillOp("publ", Code(fno, s[3]), PublValue(publ.g3, 3))>>
  ELSE <<>>

PublOps(area, is_asp) ==
  PublFills(SearchPubl(area),
            IF is_asp THEN 463 ELSE 210,
            IF is_asp THEN <<"d", "g", "j">> ELSE <<"a", "c", "d">>)

\* re.match(r'\d{4}', area)
MatchYear(area) == Len(area) >= 4 /\ \A i \in 1..4 : IsDigit(area[i])

\* lines 163-170
DateOps(area, is_asp) ==
  IF MatchYear(area)
  THEN <<FillOp("date", <<"4","6","3","^","j">>, SubSeq(area, 1, 4)),
         FillOp("date", <<"9","0","0","^","b">>, <<"0", "8">>)>>
  ELSE IF is_asp
  THEN <<FillOp("type", <<"9","0","0","^","b">>, <<"0", "9">>)>>
  ELSE <<FillOp("type", <<"9","0","0","^","b">>, <<"0", "5">>)>>

\* the class [сcpSsл] of regex_m_pages
MPageUnits == {"cyr_s", "c", "p", "S", "s", "cyr_l"}

\* the class [CСPS] of regex_s_pages
SPageUnits == {"C", "CYR_S", "P", "S"}

\* re.search(regex_m_pages, area): [matched, g1, g2]
SearchMPages(area) ==
  LET d == RunLen(area, 1, NonDigit(area))
      ok == d >= 1 /\ d + 2 <= Len(area) /\ area[d + 1] = " "
              /\ area[d + 2] \in MPageUnits
      dot == d + 3 <= Len(area) /\ area[d + 3] = "."
  IN IF ok
     THEN [matched |-> TRUE, g1 |-> SubSeq(area, 1, d),
           g2 |-> SubSeq(area, d + 2, IF dot THEN d + 3 ELSE d + 2)]
     ELSE [matched |-> FALSE, g1 |-> <<>>, g2 |-> <<>>]

\* re.search(regex_s_pages, area): [matched, g1, g2]
SearchSPages(area) ==
  LET b == IF Len(area) >= 3 /\ area[3] = " " THEN 4 ELSE 3
      d1 == RunLen(area, b, NonDigit(area))
      nd == RunLen(area, b + d1, IsDigitAt(area))
      d2 == RunLen(area, b + d1 + nd, NonDigit(area))
      ok == Len(area) >= 2 /\ area[1] \in SPageUnits /\ area[2] = "."
              /\ d1 >= 1 /\ nd >= 1 /\ nd <= 3 /\ d2 >= 1
  IN IF ok
     THEN [matched |-> TRUE, g1 |-> SubSeq(area, 1, 2),
           g2 |-> SubSeq(area, b, b + d1 + nd + d2 - 1)]
     ELSE [matched |-> FALSE, g1 |-> <<>>, g2 |-> <<>>]

\* lines 172-177
PagesFills(pages, fno, st) ==
  IF pages.matched
  THEN <<FillOp("pages", Code(fno, st[1]), pages.g1),
         FillOp("pages", Code(fno, st[2]), pages.g2)>>
  ELSE <<>>

PagesOps(area, is_asp) ==
  PagesFills(IF is_asp THEN SearchSPages(area) ELSE SearchMPages(area),
             IF is_asp THEN 463 ELSE 215,
             IF is_asp THEN <<"1", "s">> ELSE <<"a", "1">>)

\* the lookahead text '-е из' of regex_edition
EditionMark == <<"-", "cyr_e", " ", "cyr_i", "cyr_z">>

\* re.search(regex_edition, area).group(), <<>> when there is no match
SearchEdition(area) ==
  LET d == RunLen(area, 1, NonDigit(area))
  IN IF d \in {1, 2} /\ MatchAt(area, d + 1, EditionMark)
     THEN SubSeq(area, 1, RunLen(area, 1, NonDot(area)))
     ELSE <<>>

\* lines 179-183: zip('ab', ed_info)
EditionOps(area) ==
  LET ed == SearchEdition(area)
      ed_info == Split(ed, <<",", " ">>)
  IN IF ed = <<>> THEN <<>>
     ELSE <<FillOp("edition", <<"2","0","5","^","a">>, ed_info[1])>>
          \o (IF Len(ed_info) >= 2
              THEN <<FillOp("edition", <<"2","0","5","^","b">>, ed_info[2])>>
              ELSE <<>>)

\* the keyword alternatives of regex_issue, in the order the regex tries them
\* (the pattern is not compiled VERBOSE: the line break before the fifth
\* alternative is part of it)
IssueKeywords ==
  << <<"i","s","s","u","e">>, <<"n","o",".">>,
     <<"v",".">>, <<"v","o","l",".">>, <<"v","o","l","u","m","e">>,
     <<"cyr_v","cyr_y","cyr_p",".">>,
     <<"cyr_v","cyr_y","cyr_p","cyr_u","cyr_s","cyr_k">>,
     <<"NL","cyr_v","cyr_y","cyr_p","cyr_u","cyr_s","cyr_k"," ","NUMERO">>,
     <<"cyr_t",".">>, <<"cyr_t","cyr_o","cyr_m",".">>,
     <<"cyr_t","cyr_o","cyr_m">>,
     <<"cyr_ch",".">>, <<"cyr_ch","cyr_a","cyr_s","cyr_t","cyr_soft">>,
     <<"NUMERO">> >>

\* the class [-(),/\d IVXDC] under re.IGNORECASE
IssueNumClass(c) ==
  \/ c \in {"-", "(", ")", ",", "/", " "}
  \/ IsDigit(c)
  \/ Upper(c) \in {"I", "V", "X", "D", "C"}

\* keyword kw matches at TLA position p, ignoring case
KeywordAt(s, p, kw) ==
  /\ p + Len(kw) - 1 <= Len(s)
  /\ \A i \in 1..Len(kw) : Lower(s[p + i - 1]) = Lower(kw[i])

\* positions after one keyword matched at p, in the order the regex tries
KeywordEnds(s, p) ==
  LET hit == SelectSeq(IssueKeywords, LAMBDA kw : KeywordAt(s, p, kw))
  IN [i \in 1..Len(hit) |-> p + Len(hit[i])]

\* position after ' ?[-(),/\d IVXDC]+' matched at q, 0 when it does not
IssueTailEnd(s, q) ==
  LET n == RunLen(s, q, {i \in 1..Len(s) : ~IssueNumClass(s[i])})
  IN IF n >= 1 THEN q + n ELSE 0

RECURSIVE FirstNonZero(_)
FirstNonZero(seq) ==
  IF seq = <<>> THEN 0
  ELSE IF Head(seq) # 0 THEN Head(seq) ELSE FirstNonZero(Tail(seq))

\* end of the match with the first keyword ending before e1: a second
\* keyword is tried first ({1,2} is greedy), then none
IssueEndAfter(s, e1) ==
  LET second == KeywordEnds(s, e1)
  IN FirstNonZero([i \in 1..Len(second) |-> IssueTailEnd(s, second[i])]
                    \o <<IssueTailEnd(s, e1)>>)

\* position after the match of regex_issue starting at p, 0 when none
IssueMatchEnd(s, p) ==
  LET first == KeywordEnds(s, p)
  IN FirstNonZero([i \in 1..Len(first) |-> IssueEndAfter(s, first[i])])

RECURSIVE FindallIssueFrom(_, _)
FindallIssueFrom(s, pos) ==
  LET starts == {p \in pos..Len(s) : IssueMatchEnd(s, p) # 0}
  IN IF starts = {} THEN <<>>
     ELSE LET p == Min(starts)
              e == IssueMatchEnd(s, p)
          IN <<SubSeq(s, p, e - 1)>> \o FindallIssueFrom(s, e)

\* [elem.rstrip(', ') for elem in re.findall(regex_issue, area)]
FindallIssue(area) ==
  LET found == FindallIssueFrom(area, 1)
  IN [i \in 1..Len(found) |-> RStrip(found[i], {",", " "})]

\* lines 185-189: zip('vil', issue)
IssueOps(area) ==
  LET issue == FindallIssue(area)
      vil == <<"v", "i", "l">>
      n == IF Len(issue) < 3 THEN Len(issue) ELSE 3
  IN [i \in 1..n |-> FillOp("issue", Code(463, vil[i]), issue[i])]

\* 'Ссылка на публикацию'
EdnLabel ==
  <<"CYR_S","cyr_s","cyr_y","cyr_l","cyr_k","cyr_a"," ","cyr_n","cyr_a"," ",
    "cyr_p","cyr_u","cyr_b","cyr_l","cyr_i","cyr_k","cyr_a","cyr_c","cyr_i",
    "cyr_yu">>

\* 'https://elibrary.ru/item.asp?edn='
EdnUrl ==
  <<"h","t","t","p","s",":","/","/","e","l","i","b","r","a","r","y",".",
    "r","u","/","i","t","e","m",".","a","s","p","?","e","d","n","=">>

\* lines 191-196
EdnOps(area) ==
  IF StartsWith(area, <<"E", "D", "N">>)
  THEN <<FillOp("edn", <<"9","5","1","^","t">>, EdnLabel),
         FillOp("edn", <<"9","5","1","^","i">>,
                EdnUrl \o SubSeq(area, 5, IF Len(area) < 10 THEN Len(area) ELSE 10)),
         FillOp("edn", <<"9","5","1","^","h">>, <<"0", "5">>)>>
  ELSE <<>>

\* lines 198-200
IsbnOps(area, is_asp) ==
  IF StartsWith(area, <<"I", "S", "B", "N">>)
  THEN <<FillOp("isbn",
                IF is_asp THEN <<"9","6","1","^","i">> ELSE <<"1","0","^","a">>,
                From(area, 5))>>
  ELSE <<>>

\* lines 202-204
DoiOps(area) ==
  IF StartsWith(area, <<"D", "O", "I">>)
  THEN <<FillOp("doi", <<"1","9","^","A">>, <<"6", " ", "D", "O", "I">>),
         FillOp("doi", <<"1","9","^","B">>, From(area, 4))>>
  ELSE <<>>

\* the body of `for area in desc_areas`
AreaOps(area, is_asp) ==
  PublOps(area, is_asp) \o DateOps(area, is_asp) \o PagesOps(area, is_asp)
    \o EditionOps(area) \o IssueOps(area) \o EdnOps(area)
    \o IsbnOps(area, is_asp) \o DoiOps(area)

RECURSIVE AreasOps(_, _)
AreasOps(areas, is_asp) ==
  IF areas = <<>> THEN <<>>
  ELSE AreaOps(Head(areas), is_asp) \o AreasOps(Tail(areas), is_asp)

(* ------------------------------------------------------------------ *)
(* Parse Orchestrator: Parsing.__init__ as a program of primitive       *)
(* operations.  Which statements run depends on the text alone; what     *)
(* each does to the record depends on the state it runs in.              *)
(* ------------------------------------------------------------------ *)

\* self.asp = bool(source)
Asp(text) == Partition(Normalize(text), SourceSep)[3] # <<>>

\* ozboz[0] / elem[3] out of range
RaiseOp == MkOp("raise", "IndexError", <<>>, <<>>, 0)

FinishOp == MkOp("finish", "freeze", <<>>, <<>>, 0)

\* 'конференц'
Konferenc ==
  <<"cyr_k","cyr_o","cyr_n","cyr_f","cyr_e","cyr_r","cyr_e","cyr_n","cyr_c">>

\* today = date.today().strftime('%Y%m%d'), fixed when the module loads
today == <<"2","0","2","4","0","1","1","5">>

\* lines 126-132
MainTitleOps(t) ==
  <<FillOp("title", <<"2","0","0","^","a">>, t.title),
    FillOp("title", <<"2","0","0","^","e">>, t.title_info),
    FillOp("title", <<"2","0","0","^","f">>, t.resp_stmt_1),
    FillOp("title", <<"2","0","0","^","g">>, t.resp_stmt_2)>>
  \o make_author(701, t.resp_stmt_1)
  \o (IF t.resp_stmt_2 # <<>> THEN make_author(702, t.resp_stmt_2) ELSE <<>>)

\* lines 138-150
SourceTitleOps(st) ==
  (IF st.resp_stmt_1 # <<>> THEN make_author(961, st.resp_stmt_1) ELSE <<>>)
  \o (IF st.resp_stmt_2 # <<>> THEN make_author(961, st.resp_stmt_2) ELSE <<>>)
  \o <<FillOp("source", <<"4","6","3","^","c">>, st.title),
       FillOp("source", <<"9","6","3","^","e">>, st.title_info)>>
  \o (IF Contains(st.title_info, Konferenc)
      THEN <<FillOp("source", <<"9","0","0","^","c">>, <<"1","8","f">>)>>
      ELSE <<>>)
  \o (IF st.resp_stmt_1 # <<>>
      THEN IF st.resp_stmt_2 # <<>>
           THEN <<FillOp("source", <<"9","6","3","^","f">>,
                         st.resp_stmt_1 \o <<" ", ";", " ">> \o st.resp_stmt_2)>>
           ELSE <<FillOp("source", <<"9","6","3","^","f">>, st.resp_stmt_1)>>
      ELSE <<>>)

\* lines 206-212
TrailerOps(is_asp) ==
  <<FillOp("fixed", <<"9","2","0">>,
           IF is_asp THEN <<"A","S","P">> ELSE <<"P","A","Z","K">>),
    FillOp("fixed", <<"9","0","7","^","c">>, <<"CYR_P","CYR_K">>),
    FillOp("fixed", <<"9","0","7","^","a">>, today),
    FillOp("fixed", <<"9","0","7","^","b">>,
           <<"i","t","f","m","a","k","e","r">>),
    FinishOp>>

\* the areas the loop at line 153 runs over
AreasOf(part) ==
  Tail(Split(part[1], AreaSep))
    \o (IF part[3] # <<>> THEN Tail(Split(part[3], AreaSep)) ELSE <<>>)

DescAreas(text) == AreasOf(Partition(Normalize(text), SourceSep))

\* lines 134-212, st being make_title of the first area of the source
SourcePart(st, areas, is_asp) ==
  IF is_asp /\ st.raised THEN st.ops \o <<RaiseOp>>
  ELSE (IF is_asp THEN st.ops \o SourceTitleOps(st) ELSE <<>>)
       \o AreasOps(areas, is_asp)
       \o TrailerOps(is_asp)

\* lines 125-212, t being make_title of the first area of the main part
MainPart(t, st, areas, is_asp) ==
  IF t.raised THEN t.ops \o <<RaiseOp>>
  ELSE t.ops \o MainTitleOps(t) \o SourcePart(st, areas, is_asp)

\* the constructor after bibref.partition(' // ')
ProgramOf(part) ==
  MainPart(make_title(Split(part[1], AreaSep)[1]),
           make_title(Split(part[3], AreaSep)[1]),
           AreasOf(part),
           part[3] # <<>>)

\* Parsing(bibref): the operations of the constructor, in order
Program(text) == ProgramOf(Partition(Normalize(text), SourceSep))

(* ------------------------------------------------------------------ *)
(* Record model: Field, fld                                             *)
(* ------------------------------------------------------------------ *)

\* {} : a dictionary is a function from its keys
EmptyDict == <<>>

\* d[k] = v
Put(d, k, v) == [x \in (DOMAIN d) \cup {k} |-> IF x = k THEN v ELSE d[x]]

\* Field.__init__: contents = [{}]
NewContents == <<EmptyDict>>

\* the tag part of an address: up to '^', else up to '#', else all of it
FldTag(code) ==
  LET hat == FindFrom(code, <<"^">>, 1)
      hash == FindFrom(code, <<"#">>, 1)
  IN IntOf(IF hat # 0 THEN SubSeq(code, 1, hat - 1)
           ELSE IF hash # 0 THEN SubSeq(code, 1, hash - 1)
           ELSE code)

\* v_subf
FldSubf(code) ==
  LET hat == FindFrom(code, <<"^">>, 1)
  IN IF hat # 0 THEN Upper(code[hat + 1]) ELSE "_"

\* v_occ, contents being those of the field addressed
FldOcc(code, contents) ==
  LET hash == FindFrom(code, <<"#">>, 1)
      v_occ == SubSeq(code, hash + 1, Len(code))
  IN IF hash = 0 THEN 1
     ELSE IF v_occ = <<"n">> THEN Len(contents)
     ELSE IntOf(v_occ)

RECURSIVE Extend(_, _)
\* while o < v_occ + 1: self.contents.append({})
Extend(contents, v_occ) ==
  IF Len(contents) < v_occ + 1
  THEN Extend(Append(contents, EmptyDict), v_occ)
  ELSE contents

\* the aggregate rebuilt by the two loops over kk
Aggregate(contents) ==
  LET kk == UNION {DOMAIN contents[i] : i \in 1..Len(contents)}
  IN [key \in kk |->
        [i \in 1..(Len(contents) - 1) |->
           IF key \in DOMAIN contents[i + 1] THEN contents[i + 1][key]
           ELSE None]]

\* Field.fill(value) with place = (tag, v_occ, v_subf)
Fill(contents, v_occ, v_subf, value) ==
  LET ext == Extend(contents, v_occ)
      w == IF value # <<>>
           THEN [ext EXCEPT ![v_occ + 1] = Put(@, v_subf, value)]
           ELSE ext
  IN [w EXCEPT ![1] = Aggregate(w)]

\* contents[i] == x for list.remove: the aggregate at Python index 0 maps
\* keys to lists and an occurrence maps keys to strings, so the two are
\* equal only when both are empty
OccEq(contents, i, x) ==
  IF i = 1 THEN DOMAIN contents[1] = {} /\ DOMAIN x = {}
  ELSE contents[i] = x

\* contents.remove(x) inside try/except ValueError
Remove(contents, x) ==
  LET hits == {i \in 1..Len(contents) : OccEq(contents, i, x)}
  IN IF hits = {} THEN contents
     ELSE LET i == Min(hits)
          IN SubSeq(contents, 1, i - 1) \o SubSeq(contents, i + 1, Len(contents))

(* ------------------------------------------------------------------ *)
(* Inputs                                                               *)
(* ------------------------------------------------------------------ *)

\* parses started over the whole run
MaxParses == 2

\* an empty form or an empty line: ""
Empty ==
  <<>>

\* spaces and tabs only: " \t"
Blank ==
  <<" ","TAB">>

\* heading, then ' : ' with nothing after it: "Аб А. Т : . - х"
BadTitle ==
  <<"CYR_A","cyr_b"," ","CYR_A","."," ","CYR_T"," ",":"," ","."," ","-"," ","cyr_h">>

\* analytic, the source has an empty first area: "Т : И // . - х"
BadSource ==
  <<"CYR_T"," ",":"," ","CYR_I"," ","/","/"," ","."," ","-"," ","cyr_h">>

\* monograph: a year area, then pagination: "Т. – 2020. - 20 с."
Dated ==
  <<"CYR_T","."," ","ENDASH"," ","2","0","2","0","."," ","-"," ","2","0"," ","cyr_s",".">>

\* monograph: heading repeated as first author, publisher: "Аб А. Т / А. Аб. - М. : Н, 2020"
Mono ==
  <<"CYR_A","cyr_b"," ","CYR_A","."," ","CYR_T"," ","/"," ","CYR_A","."," ","CYR_A","cyr_b","."," ","-"," ","CYR_M","."," ",":"," ","CYR_N",","," ","2","0","2","0">>

\* monograph: heading repeated as second author: "Аб А. Т / Вг В., Аб А."
Second ==
  <<"CYR_A","cyr_b"," ","CYR_A","."," ","CYR_T"," ","/"," ","CYR_V","cyr_g"," ","CYR_V",".",","," ","CYR_A","cyr_b"," ","CYR_A",".">>

\* the marker [и др.] inside the statement: "Т / Аб А. [и др.], Вг В."
EtAlMid ==
  <<"CYR_T"," ","/"," ","CYR_A","cyr_b"," ","CYR_A","."," ","[","cyr_i"," ","cyr_d","cyr_r",".","]",","," ","CYR_V","cyr_g"," ","CYR_V",".">>

\* the marker [и др.] at the end of the statement: "Т / Аб А., Вг В. [и др.]"
EtAlEnd ==
  <<"CYR_T"," ","/"," ","CYR_A","cyr_b"," ","CYR_A",".",","," ","CYR_V","cyr_g"," ","CYR_V","."," ","[","cyr_i"," ","cyr_d","cyr_r",".","]">>

\* analytic: source heading equal to the first author, publisher and year areas: "Т / Вг В. // Вг В. С : конференц / Д. Де. - М., 2019. - 2020. - С. 1-2"
Analytic ==
  <<"CYR_T"," ","/"," ","CYR_V","cyr_g"," ","CYR_V","."," ","/","/"," ","CYR_V","cyr_g"," ","CYR_V","."," ","CYR_S"," ",":"," ","cyr_k","cyr_o","cyr_n","cyr_f","cyr_e","cyr_r","cyr_e","cyr_n","cyr_c"," ","/"," ","CYR_D","."," ","CYR_D","cyr_e","."," ","-"," ","CYR_M",".",","," ","2","0","1","9","."," ","-"," ","2","0","2","0","."," ","-"," ","CYR_S","."," ","1","-","2">>

\* monograph: Latin names, edition, issue, identifiers: "T ; ed. Ab. - 2-е изд., х. - v. 5, № 3. - ISBN 5. - DOI x. - EDN ABCDEF"
Ids ==
  <<"T"," ",";"," ","e","d","."," ","A","b","."," ","-"," ","2","-","cyr_e"," ","cyr_i","cyr_z","cyr_d",".",","," ","cyr_h","."," ","-"," ","v","."," ","5",","," ","NUMERO"," ","3","."," ","-"," ","I","S","B","N"," ","5","."," ","-"," ","D","O","I"," ","x","."," ","-"," ","E","D","N"," ","A","B","C","D","E","F">>

\* the texts typed, copied or read from a file
Citations ==
  {Empty, Blank, BadTitle, BadSource, Dated, Mono, Second, EtAlMid, EtAlEnd, Analytic, Ids}

\* a line of a file as readlines() returns it
Lines == {c \o <<"NL">> : c \in Citations}

(* ------------------------------------------------------------------ *)
(* State                                                                *)
(* ------------------------------------------------------------------ *)

VARIABLES
  heap,           \* the Field objects: heap[id] is the contents list of one
  irbis_entry,    \* the module-level registry: tag -> Field (its id)
  place,          \* the module-level write position set by fld
  parsing_batch,  \* the list of finished Parsing objects
  notify_text,    \* the status line
  handler,        \* the callback running: "idle", "do_parsing", "multi_parsing"
  bibrefs,        \* multi_parsing: the lines still to be parsed
  bibref,         \* the text given to the Parsing under construction, or NoText
  asp,            \* self.asp of the Parsing under construction
  ops,            \* the operations of the constructor still to run
  step,           \* how many of them have run
  author,         \* the make_author call running: fno, resp_stmt, people
  fired,          \* the statement groups that have written in this parse
  file,           \* the lines read by the last multi_parsing
  log             \* every parse so far: its text and how it ended

vars == <<heap, irbis_entry, place, parsing_batch, notify_text, handler,
          bibrefs, bibref, asp, ops, step, author, fired, file, log>>

NoText == <<"NoText">>

NoAuthor == [fno |-> 0, resp_stmt |-> <<>>, people |-> <<>>]

\* the clipboard holds no text (clipboard_get raises TclError)
NoClip == <<"NoClip">>

\* 'Разбираем...'
MsgParsing == "Razbiraem..."

\* 'Разобрано'
MsgParsed == "Razobrano"

\* 'Нечего разбирать.'
MsgNothing == "Nechego razbirat'."

\* f'Что-то пошло не так: {e}'
MsgFailure == "Chto-to poshlo ne tak"

\* 'В буфере обмена не библиографическая ссылка.'
MsgNotIsbd == "V bufere obmena ne bibliograficheskaya ssylka."

\* 'В буфере обмена ничего не было.'
MsgNoClip == "V bufere obmena nichego ne bylo."

\* 'Имена латиницей, нужно будет исправить.'
MsgLatin == "Imena latinicej, nuzhno budet ispravit'."

Init ==
  /\ heap = <<>>
  /\ irbis_entry = EmptyDict
  /\ place = <<>>
  /\ parsing_batch = <<>>
  /\ notify_text = ""
  /\ handler = "idle"
  /\ bibrefs = <<>>
  /\ bibref = NoText
  /\ asp = FALSE
  /\ ops = <<>>
  /\ step = 0
  /\ author = NoAuthor
  /\ fired = {}
  /\ file = <<>>
  /\ log = <<>>

(* ------------------------------------------------------------------ *)
(* Handlers                                                             *)
(* ------------------------------------------------------------------ *)

\* paste(form): the text the form holds afterwards and the status it sets
\* ("" when it sets none)
paste(form, clipboard) ==
  IF clipboard = NoClip THEN [text |-> form, status |-> MsgNoClip]
  ELSE IF Contains(dashes(clipboard), AreaSep)
  THEN [text |-> dashes(clipboard), status |-> ""]
  ELSE [text |-> form, status |-> MsgNotIsbd]

\* every text a handler can hand to Parsing: a typed text or a pasted one
\* (with its dashes translated) as Text.get returns it, or a line of a file
Texts == Lines \cup {dashes(c) \o <<"NL">> : c \in Citations}

\* Parsing(text) for each of them, evaluated once: the text, self.asp and
\* the operations of the constructor
Parsings == {<<text, Asp(text), Program(text)>> : text \in Texts}

ParsingOf(text) == CHOOSE p \in Parsings : p[1] = text

\* the first statements of Parsing(text): the constructor's program is fixed
Begin(p) ==
  /\ bibref' = p[1]
  /\ asp' = p[2]
  /\ ops' = p[3]
  /\ step' = 0
  /\ author' = NoAuthor
  /\ fired' = {}

BeginParsing(text) == Begin(ParsingOf(text))

\* a do_parsing without the `except IndexError` clause
GenericStatus(exc) == MsgFailure

\* the status do_parsing shows for an exception
ExceptStatus(exc) == IF exc = "IndexError" THEN MsgNothing ELSE MsgFailure

\* do_parsing up to the call of Parsing: the form holds `typed`, the
\* clipboard `clipboard`; Text.get('1.0', 'end') ends with a line break
DoParsing(typed, clipboard) ==
  LET p == paste(typed, clipboard)
  IN /\ handler = "idle"
     /\ Len(log) < MaxParses
     /\ handler' = "do_parsing"
     /\ notify_text' = IF p.status = "" THEN MsgParsing ELSE p.status
     /\ BeginParsing(p.text \o <<"NL">>)
     /\ UNCHANGED <<heap, irbis_entry, place, parsing_batch, bibrefs, file, log>>

\* multi_parsing up to the loop: bibrefs = f.readlines()
MultiParsing(lines) ==
  /\ handler = "idle"
  /\ Len(log) + Len(lines) <= MaxParses
  /\ handler' = "multi_parsing"
  /\ bibrefs' = lines
  /\ file' = lines
  /\ UNCHANGED <<heap, irbis_entry, place, parsing_batch, notify_text, bibref,
                 asp, ops, step, author, fired, log>>

\* for line in bibrefs: Parsing(line)
NextLine ==
  /\ handler = "multi_parsing"
  /\ bibref = NoText
  /\ bibrefs # <<>>
  /\ BeginParsing(Head(bibrefs))
  /\ bibrefs' = Tail(bibrefs)
  /\ UNCHANGED <<heap, irbis_entry, place, parsing_batch, notify_text, handler,
                 file, log>>

\* the loop of multi_parsing is over
MultiReturn ==
  /\ handler = "multi_parsing"
  /\ bibref = NoText
  /\ bibrefs = <<>>
  /\ handler' = "idle"
  /\ UNCHANGED <<heap, irbis_entry, place, parsing_batch, notify_text, bibrefs,
                 bibref, asp, ops, step, author, fired, file, log>>

(* ------------------------------------------------------------------ *)
(* The steps of Parsing.__init__                                        *)
(* ------------------------------------------------------------------ *)

Running(kind) == bibref # NoText /\ ops # <<>> /\ Head(ops).op = kind

Advance == ops' = Tail(ops) /\ step' = step + 1

\* an exception leaves the constructor: do_parsing catches it and sets the
\* status, multi_parsing has no handler and the callback ends
Raised(exc) ==
  /\ log' = Append(log, [bibref |-> bibref, result |-> exc])
  /\ bibref' = NoText
  /\ ops' = <<>>
  /\ step' = step + 1
  /\ bibrefs' = <<>>
  /\ handler' = "idle"
  /\ notify_text' = IF handler = "do_parsing" THEN ExceptStatus(exc)
                    ELSE notify_text

\* fld(code).fill(value)
StepFill ==
  /\ Running("fill")
  /\ LET op == Head(ops)
         v_tag == FldTag(op.code)
         new == v_tag \notin DOMAIN irbis_entry
         id == IF new THEN Len(heap) + 1 ELSE irbis_entry[v_tag]
         contents == IF new THEN NewContents ELSE heap[id]
         v_occ == FldOcc(op.code, contents)
         v_subf == FldSubf(op.code)
         filled == Fill(contents, v_occ, v_subf, op.value)
     IN /\ heap' = IF new THEN Append(heap, filled)
                   ELSE [heap EXCEPT ![id] = filled]
        /\ irbis_entry' = IF new THEN Put(irbis_entry, v_tag, id)
                          ELSE irbis_entry
        /\ place' = <<v_tag, v_occ, v_subf>>
        /\ fired' = fired \cup {op.rule}
  /\ Advance
  /\ UNCHANGED <<parsing_batch, notify_text, handler, bibrefs, bibref, asp,
                 author, file, log>>

\* make_author is entered: the marker is cut and the statement split
StepMakeAuthor ==
  /\ Running("make_author")
  /\ author' = [fno |-> Head(ops).fno, resp_stmt |-> Head(ops).value,
                people |-> People(Head(ops).value)]
  /\ Advance
  /\ UNCHANGED <<heap, irbis_entry, place, parsing_batch, notify_text, handler,
                 bibrefs, bibref, asp, fired, file, log>>

\* notify_text.set('Имена латиницей, ...')
StepNotify ==
  /\ Running("notify")
  /\ notify_text' = MsgLatin
  /\ Advance
  /\ UNCHANGED <<heap, irbis_entry, place, parsing_batch, handler, bibrefs,
                 bibref, asp, author, fired, file, log>>

\* lines 261-266: the duplicate-author removal
StepDedup ==
  /\ Running("dedup")
  /\ IF 700 \in DOMAIN irbis_entry /\ 701 \in DOMAIN irbis_entry
     THEN heap' = [heap EXCEPT ![irbis_entry[701]] =
                     Remove(@, heap[irbis_entry[700]][2])]
     ELSE heap' = heap
  /\ Advance
  /\ UNCHANGED <<irbis_entry, place, parsing_batch, notify_text, handler,
                 bibrefs, bibref, asp, author, fired, file, log>>

\* ozboz[0] or elem[3] raises IndexError
StepRaise ==
  /\ Running("raise")
  /\ Raised(Head(ops).rule)
  /\ UNCHANGED <<heap, irbis_entry, place, parsing_batch, asp, author, fired,
                 file>>

\* a freeze that leaves the registry as it is
Keep(d) == d

\* irbis_entry.clear()
Clear(d) == EmptyDict

\* lines 210-212, then the return to the handler
StepFinish ==
  /\ Running("finish")
  /\ parsing_batch' = Append(parsing_batch,
                             [fields |-> irbis_entry, asp |-> asp,
                              bibref |-> bibref])
  /\ irbis_entry' = Clear(irbis_entry)
  /\ log' = Append(log, [bibref |-> bibref, result |-> "ok"])
  /\ bibref' = NoText
  /\ Advance
  /\ IF handler = "do_parsing"
     THEN notify_text' = MsgParsed /\ handler' = "idle"
     ELSE UNCHANGED <<notify_text, handler>>
  /\ UNCHANGED <<heap, place, bibrefs, asp, author, fired, file>>

Next ==
  \/ \E typed \in Citations, clipboard \in Citations \cup {NoClip} :
       DoParsing(typed, clipboard)
  \/ \E n \in 0..MaxParses : \E lines \in [1..n -> Lines] : MultiParsing(lines)
  \/ NextLine
  \/ MultiReturn
  \/ StepFill
  \/ StepMakeAuthor
  \/ StepNotify
  \/ StepDedup
  \/ StepRaise
  \/ StepFinish

Spec == Init /\ [][Next]_vars

(* ------------------------------------------------------------------ *)
(* Properties                                                           *)
(* ------------------------------------------------------------------ *)

\* C1 (batch isolation): when multi_parsing ends, every line of the file
\* whose parse succeeds has contributed an Entry, in input order: the
\* texts of the last Entries of the batch are the parseable lines of the
\* file, whatever became of the other lines.
C1_BatchIsolation ==
  [][(handler = "multi_parsing" /\ handler' = "idle") =>
       LET want == SelectSeq(file,
                     LAMBDA l : ParsingOf(l)[3][Len(ParsingOf(l)[3])] = FinishOp)
           got == [i \in 1..Len(parsing_batch') |-> parsing_batch'[i].bibref]
       IN /\ Len(got) >= Len(want)
          /\ SubSeq(got, Len(got) - Len(want) + 1, Len(got)) = want]_vars

\* C2 (fresh record): at the moment a parse begins, before its first
\* statement has run, the registry irbis_entry holds no field.
C2_FreshRecord == (bibref # NoText /\ step = 0) => DOMAIN irbis_entry = {}

\* C3 (field well-formedness): every Field has at least one occurrence and
\* every list of its aggregate contents[0] has one slot per occurrence,
\* len(contents) - 1.
C3_AggregateLengths ==
  \A id \in DOMAIN heap :
    /\ Len(heap[id]) >= 2
    /\ \A key \in DOMAIN heap[id][1] : Len(heap[id][1][key]) = Len(heap[id]) - 1

\* C4 (append-only batch, immutable entries): no step removes or moves an
\* Entry of the batch or changes the contents of a Field an Entry holds, the
\* batch grows by one Entry at a time, and the step that ends a failed parse
\* leaves the batch as it was.
C4_BatchAppendOnly ==
  [][/\ Len(parsing_batch') \in {Len(parsing_batch), Len(parsing_batch) + 1}
     /\ \A i \in 1..Len(parsing_batch) :
          /\ parsing_batch'[i] = parsing_batch[i]
          /\ \A tag \in DOMAIN parsing_batch[i].fields :
               heap'[parsing_batch[i].fields[tag]]
                 = heap[parsing_batch[i].fields[tag]]
     /\ (Running("raise") => parsing_batch' = parsing_batch)]_vars

\* C4 witness: a first parse has put an Entry in the batch and a later parse
\* has failed after writing a field of its own
C4_Witness ==
  /\ Len(parsing_batch) = 1
  /\ Len(log) = 2
  /\ log[1].result = "ok"
  /\ log[2].result = "IndexError"
  /\ DOMAIN irbis_entry # {}

\* C5 (nothing to parse): a parse whose text is empty after normalization
\* ends at its first step without adding an Entry, without creating or
\* writing a Field, and do_parsing then shows the "nothing to parse" status.
C5_NothingToParse ==
  [][(bibref # NoText /\ Normalize(bibref) = <<>>) =>
       /\ bibref' = NoText
       /\ parsing_batch' = parsing_batch
       /\ heap' = heap
       /\ irbis_entry' = irbis_entry
       /\ (handler = "do_parsing" => notify_text' = MsgNothing)]_vars

\* C5 witness: do_parsing has just parsed a blank text while the batch held
\* an Entry, and the status line says there was nothing to parse
C5_Witness ==
  /\ handler = "idle"
  /\ Len(log) = 2
  /\ Normalize(log[2].bibref) = <<>>
  /\ log[2].bibref # <<"NL">>
  /\ file = <<>>
  /\ notify_text = MsgNothing
  /\ Len(parsing_batch) = 1

\* C6 (Date-only rule): within one parse the Publisher rule and the
\* Date-only rule never both write, and the Date-only rule never writes for
\* a monograph.
C6_DateOnlyRule ==
  /\ ~ ({"publ", "date"} \subseteq fired)
  /\ ("date" \in fired => asp)

\* C7 (routing): an Entry is analytic exactly when its normalized text has a
\* non-empty source after " // "; an analytic Entry has no field 210, and a
\* monograph Entry has no publisher or date subfield (d, g, j) in field 463.
C7_Routing ==
  \A i \in 1..Len(parsing_batch) :
    LET e == parsing_batch[i]
        norm == Normalize(e.bibref)
        at == FindFrom(norm, SourceSep, 1)
    IN /\ e.asp <=> (at # 0 /\ at + Len(SourceSep) <= Len(norm))
       /\ e.asp => 210 \notin DOMAIN e.fields
       /\ (~e.asp /\ 463 \in DOMAIN e.fields) =>
            DOMAIN heap[e.fields[463]][1] \cap {"D", "G", "J"} = {}

\* C8 (author de-duplication): the removal attempt changes field 701 only
\* while the authors of 701 are extracted and only when the first occurrence
\* of 701 equals the first occurrence of 700, and then it removes exactly
\* that first occurrence; in every other case it changes nothing.
C8_Dedup ==
  [][Running("dedup") =>
       IF /\ author.fno = 701
          /\ 700 \in DOMAIN irbis_entry /\ 701 \in DOMAIN irbis_entry
          /\ Len(heap[irbis_entry[701]]) >= 2
          /\ heap[irbis_entry[701]][2] = heap[irbis_entry[700]][2]
       THEN heap' = [heap EXCEPT ![irbis_entry[701]] =
                       <<@[1]>> \o SubSeq(@, 3, Len(@))]
       ELSE heap' = heap]_vars

\* C9 (et al. marker): the persons make_author splits are those of the
\* statement without its last EtAlCut characters when it ends with
\* " [и др.]", and those of the whole statement otherwise: joined again
\* they give back every character.
C9_EtAlMarker ==
  author # NoAuthor =>
    Join(author.people, <<",", " ">>)
      = IF EndsWith(author.resp_stmt, <<" ">> \o EtAl)
        THEN DropLast(author.resp_stmt, EtAlCut)
        ELSE author.resp_stmt

\* C10 (record type): in a finished Entry with areas after the title, 900^b
\* is '08' when one of them starts with a four-digit year, else '09' for an
\* analytic Entry and '05' for a monograph, whatever the order of the areas.
C10_RecordType ==
  \A i \in 1..Len(parsing_batch) :
    LET e == parsing_batch[i]
        areas == DescAreas(e.bibref)
    IN areas # <<>> =>
         /\ 900 \in DOMAIN e.fields
         /\ heap[e.fields[900]][2]["B"]
              = IF \E j \in 1..Len(areas) : MatchYear(areas[j]) THEN <<"0", "8">>
                ELSE IF e.asp THEN <<"0", "9">>
                ELSE <<"0", "5">>

====
